---- MODULE Spec2Model ----
(***************************************************************************)
(* The translation cache manager of QBDI (ExecBlockManager): the sorted    *)
(* array of execution regions, the region allocator (findRegion), the      *)
(* sequence writer (writeBasicBlock), the sequence lookup with lazy split   *)
(* (getSeqLoc, getExecBlock, getBBInfo) and the deferred invalidation       *)
(* (clearCache, flushCommit).                                               *)
(*                                                                         *)
(* Indices (regions, buffers, instructions, sequences, basic blocks) keep   *)
(* the 0-based values of the C++ code; a TLA+ sequence s holds the element  *)
(* of index i at s[i + 1].                                                  *)
(***************************************************************************)
EXTENDS Integers, Sequences, FiniteSets, TLC

\* ------------------------------------------------------------------ bounds

\* Guest addresses are 0 .. MaxAddr.
MaxAddr == 3
\* A submitted basic block holds 1 .. MaxBlockLen patches.
MaxBlockLen == 3
\* The runs explored hold at most MaxCalls calls of the public operations.
MaxCalls == 5
\* The instructions handed to analyzeInstMetadata are at 0 .. MaxAnalysisAddr.
MaxAnalysisAddr == 1

\* ---------------------------------------------------- external collaborators

\* Size in guest bytes of every instruction handed in by the patcher.
InstSize == 1
\* Host bytes the assembler emits for one patch.
PatchHostSize == 2
\* Writable bytes of a fresh ExecBlock.
Capacity == 6
\* The sentinel seqID of a writeSequence that wrote nothing.
EXEC_BLOCK_FULL == 65535
\* The nil ExecBlock pointer.
NULL == 0

Address == 0 .. MaxAddr

\* std::map: a function on the set of its keys.
EmptyMap == [k \in {} |-> NULL]

MapSet(m, k, v) == [x \in (DOMAIN m) \cup {k} |-> IF x = k THEN v ELSE m[x]]

\* Range<rword>: the half-open interval [start, end).
Range(s, e) == [start |-> s, end |-> e]

RangeSize(r) == r.end - r.start

ContainsAddr(r, a) == r.start <= a /\ a < r.end

ContainsRange(r, o) == r.start <= o.start /\ o.end <= r.end

Overlaps(r, o) == r.start < o.end /\ o.start < r.end

\* A Patch, reduced to its metadata (address and instSize) and to the host
\* bytes the assembler emits for it.
Patch(a) == [address |-> a, instSize |-> InstSize, hostSize |-> PatchHostSize]

\* A patch that no buffer can hold.
OversizedPatch(a) ==
    [address |-> a, instSize |-> InstSize, hostSize |-> Capacity + 1]

\* The blocks the patcher can hand in: 1 .. MaxBlockLen consecutive
\* instructions, strictly increasing and not overlapping, or one instruction
\* whose patch is larger than a buffer.
BasicBlocks ==
    { [i \in 1 .. n |-> Patch(s + (i - 1) * InstSize)] :
        <<s, n>> \in { p \in Address \X (1 .. MaxBlockLen) :
                        p[1] + p[2] * InstSize <= MaxAddr + 1 } }
    \cup { <<OversizedPatch(a)>> : a \in Address }

\* --------------------------------------------------- single-precision floats

\* The exponent k for which a / b = q * 2^(-k) with 2^23 <= q < 2^24.
RECURSIVE F32Exp(_, _, _)
F32Exp(a, b, k) ==
    IF (a * 2^k) \div b >= 2^23 THEN k ELSE F32Exp(a, b, k + 1)

\* (float) a / (float) b for 1 <= a, b < 128, rounded to nearest even:
\* the value is m * 2^(-k).
F32Div(a, b) ==
    LET k == F32Exp(a, b, 0)
        q == (a * 2^k) \div b
        r == (a * 2^k) % b
        up == 2 * r > b \/ (2 * r = b /\ q % 2 = 1)
    IN  [m |-> IF up THEN q + 1 ELSE q, k |-> k]

\* The number of low bits a product has to drop to fit 24 bits.
RECURSIVE F32Shift(_, _)
F32Shift(p, s) == IF p \div 2^s < 2^24 THEN s ELSE F32Shift(p, s + 1)

\* (unsigned) ((float) c * f): the product rounded to a float (nearest even),
\* then truncated towards zero.
F32MulTrunc(c, f) ==
    LET p == c * f.m
        s == F32Shift(p, 0)
        q == p \div 2^s
        r == p % 2^s
        up == s > 0 /\ (2 * r > 2^s \/ (2 * r = 2^s /\ q % 2 = 1))
        m == IF up THEN q + 1 ELSE q
    IN  IF s >= f.k THEN m * 2^(s - f.k) ELSE m \div 2^(f.k - s)

\* The expansion ratio as a float.
getExpansionRatio(translation, translated) == F32Div(translation, translated)

\* ---------------------------------------------------------------- ExecBlock

\* A fresh buffer: instruction and sequence registries empty, nothing
\* written, no sequence selected.
NewExecBlock(id) ==
    [id |-> id, insts |-> <<>>, seqs |-> <<>>, used |-> 0,
     currentSeq |-> EXEC_BLOCK_FULL]

getEpilogueOffset(b) == Capacity - b.used

getSeqID(b, instID) == b.insts[instID + 1].seqID

getSeqStart(b, seqID) == b.seqs[seqID + 1].startInstID

getSeqEnd(b, seqID) == b.seqs[seqID + 1].endInstID

getInstAddress(b, instID) == b.insts[instID + 1].address

selectSeq(b, seqID) == [b EXCEPT !.currentSeq = seqID]

\* The host bytes of the first n patches.
RECURSIVE HostBytes(_, _)
HostBytes(patches, n) ==
    IF n = 0 THEN 0 ELSE HostBytes(patches, n - 1) + patches[n].hostSize

\* The longest prefix of the patches that fits is written as one sequence;
\* when not even one patch fits the buffer is left as it was.
writeSequence(b, patches, seqType) ==
    LET fit == { n \in 0 .. Len(patches) :
                    HostBytes(patches, n) <= getEpilogueOffset(b) }
        n == CHOOSE x \in fit : \A y \in fit : y <= x
        seqID == Len(b.seqs)
        startID == Len(b.insts)
    IN  IF n = 0
        THEN [seqID |-> EXEC_BLOCK_FULL, patchWritten |-> 0,
              bytesWritten |-> 0, block |-> b]
        ELSE [seqID |-> seqID, patchWritten |-> n,
              bytesWritten |-> HostBytes(patches, n),
              block |-> [b EXCEPT
                  !.insts = b.insts \o
                      [i \in 1 .. n |-> [address |-> patches[i].address,
                                         seqID |-> seqID]],
                  !.seqs = Append(b.seqs,
                      [startInstID |-> startID,
                       endInstID |-> startID + n - 1,
                       type |-> seqType]),
                  !.used = b.used + HostBytes(patches, n)]]

\* The suffix of the sequence of instID, from instID on, becomes a sequence
\* of its own over the same bytes; the instructions keep their sequence.
splitSequence(b, instID) ==
    LET seqID == getSeqID(b, instID)
    IN  [seqID |-> Len(b.seqs),
         block |-> [b EXCEPT !.seqs = Append(b.seqs,
             [startInstID |-> instID,
              endInstID |-> b.seqs[seqID + 1].endInstID,
              type |-> [entry |-> FALSE,
                        exit |-> b.seqs[seqID + 1].type.exit]])]]

\* ------------------------------------------------------------------- state

VARIABLES
    regions,                \* std::vector<ExecRegion>
    total_translated_size,  \* guest bytes translated so far, plus 1
    total_translation_size, \* host bytes written so far, plus 1
    searchCache,            \* the one-slot cache of searchRegion
    flushList,              \* region indices queued by clearCache(range)
    analysisCache,          \* the manager-wide analysis cache
    fault,                  \* the call ran into undefined behaviour
    calls                   \* the number of public calls made so far

vars == <<regions, total_translated_size, total_translation_size,
          searchCache, flushList, analysisCache, fault, calls>>

\* Region r of the vector.
Reg(regs, r) == regs[r + 1]

RegionIdx(regs) == 0 .. Len(regs) - 1

\* The ExecBlock pointers owned by the regions.
LiveBlocks(regs) ==
    UNION { { regs[i].blocks[j].id : j \in 1 .. Len(regs[i].blocks) } :
            i \in 1 .. Len(regs) }

\* new ExecBlock: the allocator hands out an address that is not in use.
FreshId(used) == CHOOSE id \in 1 .. Cardinality(used) + 1 : id \notin used

InsertAt(s, pos, x) == SubSeq(s, 1, pos) \o <<x>> \o SubSeq(s, pos + 1, Len(s))

RemoveAt(s, pos) == SubSeq(s, 1, pos) \o SubSeq(s, pos + 2, Len(s))

\* ------------------------------------------------------------- RegionIndex

RECURSIVE BinarySearch(_, _, _, _)
BinarySearch(regs, address, low, high) ==
    IF low + 1 = high
    THEN low
    ELSE LET idx == (low + high) \div 2
         IN  IF Reg(regs, idx).covered.start > address
             THEN BinarySearch(regs, address, low, idx)
             ELSE IF Reg(regs, idx).covered.end <= address
             THEN BinarySearch(regs, address, idx, high)
             ELSE idx

\* The index found for address, and the one-slot cache the call leaves.
searchRegion(regs, sc, address) ==
    IF Len(regs) = 0
    THEN [idx |-> 0, searchCache |-> sc]
    ELSE IF sc.address = address
    THEN [idx |-> sc.regionIdx, searchCache |-> sc]
    ELSE LET idx == BinarySearch(regs, address, 0, Len(regs))
         IN  [idx |-> idx,
              searchCache |-> [address |-> address, regionIdx |-> idx]]

\* --------------------------------------------------------- RegionAllocator

\* What extending covered to the union with codeRange adds to it.
ExtensionCost(covered, codeRange) ==
    (IF covered.end < codeRange.end THEN codeRange.end - covered.end ELSE 0)
    + (IF covered.start > codeRange.start
       THEN covered.start - codeRange.start ELSE 0)

\* The scan of the candidates low, low+1, low+2. best_cost starts at
\* 0xFFFFFFFF, above every cost, so the first affordable candidate is taken:
\* that is the case best_region = regions.size().
RECURSIVE ScanCandidates(_, _, _, _, _, _, _)
ScanCandidates(regs, E, codeRange, low, i, best_region, best_cost) ==
    IF ~(i < low + 3 /\ i < Len(regs))
    THEN [contained |-> FALSE, region |-> best_region]
    ELSE IF ContainsRange(Reg(regs, i).covered, codeRange)
    THEN [contained |-> TRUE, region |-> i]
    ELSE LET cost == ExtensionCost(Reg(regs, i).covered, codeRange)
         IN  IF F32MulTrunc(cost, E) < Reg(regs, i).available
                /\ (best_region = Len(regs) \/ cost < best_cost)
             THEN ScanCandidates(regs, E, codeRange, low, i + 1, i, cost)
             ELSE ScanCandidates(regs, E, codeRange, low, i + 1,
                                 best_region, best_cost)

\* Mutant: only the end of covered is moved.
ExtendCoveredEndOnly(covered, codeRange) ==
    Range(covered.start,
          IF covered.end < codeRange.end THEN codeRange.end ELSE covered.end)

\* covered extended to the union with codeRange.
ExtendCovered(covered, codeRange) ==
    Range(IF covered.start > codeRange.start
          THEN codeRange.start ELSE covered.start,
          IF covered.end < codeRange.end THEN codeRange.end ELSE covered.end)

\* The position of a new region: the first one from low on that starts
\* after codeRange.start.
RECURSIVE InsertPosition(_, _, _)
InsertPosition(regs, codeRange, insert) ==
    IF insert < Len(regs) /\ ~(Reg(regs, insert).covered.start > codeRange.start)
    THEN InsertPosition(regs, codeRange, insert + 1)
    ELSE insert

\* Mutant: the new region covers the first byte of codeRange only.
NewRegionFirstByte(codeRange) ==
    [covered |-> Range(codeRange.start, codeRange.start + 1),
     translated |-> 0, available |-> 0,
     blocks |-> <<>>, sequenceCache |-> EmptyMap, instCache |-> EmptyMap,
     bbRegistry |-> <<>>, analysisCache |-> EmptyMap]

NewRegion(codeRange) ==
    [covered |-> codeRange, translated |-> 0, available |-> 0,
     blocks |-> <<>>, sequenceCache |-> EmptyMap, instCache |-> EmptyMap,
     bbRegistry |-> <<>>, analysisCache |-> EmptyMap]

\* The region for codeRange, with the regions and the cache the call leaves.
\* fault: the insert position is past the end of the vector.
findRegion(regs, sc, translation, translated, codeRange) ==
    LET sr == searchRegion(regs, sc, codeRange.start)
        low == sr.idx
        E == getExpansionRatio(translation, translated)
        scan == ScanCandidates(regs, E, codeRange, low, low, Len(regs), 0)
        insert == InsertPosition(regs, codeRange, low)
    IN  IF scan.contained
        THEN [regions |-> regs, r |-> scan.region, fault |-> FALSE,
              searchCache |-> [address |-> codeRange.start,
                               regionIdx |-> scan.region]]
        ELSE IF scan.region # Len(regs)
        THEN [regions |-> [regs EXCEPT ![scan.region + 1].covered =
                              ExtendCovered(@, codeRange)],
              r |-> scan.region, fault |-> FALSE,
              searchCache |-> [address |-> codeRange.start,
                               regionIdx |-> scan.region]]
        ELSE IF insert > Len(regs)
        THEN [regions |-> regs, r |-> insert, fault |-> TRUE,
              searchCache |-> sr.searchCache]
        ELSE [regions |-> InsertAt(regs, insert, NewRegion(codeRange)),
              r |-> insert, fault |-> FALSE,
              searchCache |-> [address |-> codeRange.start,
                               regionIdx |-> insert]]

\* ---------------------------------------------------------- SequenceWriter

\* Mutant: every block counts as already translated.
TruncationPointZero(region, basicBlock) == 0

\* Mutant: the block is never truncated.
TruncationPointNone(region, basicBlock) == Len(basicBlock)

\* The truncation point: the index of the first patch that is already a
\* sequence entry of the region, or the block's size.
TruncationPoint(region, basicBlock) ==
    LET known == { i \in 0 .. Len(basicBlock) - 1 :
                    basicBlock[i + 1].address \in DOMAIN region.sequenceCache }
    IN  IF known = {}
        THEN Len(basicBlock)
        ELSE CHOOSE i \in known : \A j \in known : i <= j

\* The for loop of writeBasicBlock: the first buffer from i on that takes a
\* sequence, a new buffer being added when i runs past the last one.
\* endless: a buffer just created is full too, so is every later one.
RECURSIVE FindBlock(_, _, _, _, _)
FindBlock(region, used, i, patches, seqType) ==
    LET fresh == i >= Len(region.blocks)
        id == FreshId(used)
        region1 == IF fresh
                   THEN [region EXCEPT !.blocks = Append(@, NewExecBlock(id))]
                   ELSE region
        used1 == IF fresh THEN used \cup {id} ELSE used
        res == writeSequence(region1.blocks[i + 1], patches, seqType)
    IN  IF res.seqID # EXEC_BLOCK_FULL
        THEN [region |-> [region1 EXCEPT !.blocks[i + 1] = res.block],
              used |-> used1, i |-> i, res |-> res, endless |-> FALSE]
        ELSE IF fresh
        THEN [region |-> region1, used |-> used1, i |-> i, res |-> res,
              endless |-> TRUE]
        ELSE FindBlock(region1, used1, i + 1, patches, seqType)

\* Mutant: every instruction is recorded in the first buffer.
InstMappingFirstBuffer(region, basicBlock, patchIdx, i, seqID) ==
    LET b == region.blocks[i + 1]
        startID == getSeqStart(b, seqID)
        endID == getSeqEnd(b, seqID)
        written == { basicBlock[patchIdx + id - startID + 1].address :
                        id \in startID .. endID }
    IN  [a \in (DOMAIN region.instCache) \cup written |->
            IF a \in written
            THEN [blockIdx |-> 0,
                  instID |-> CHOOSE id \in startID .. endID :
                      basicBlock[patchIdx + id - startID + 1].address = a]
            ELSE region.instCache[a]]

\* The instruction mapping of the sequence res.seqID written in buffer i.
InstMapping(region, basicBlock, patchIdx, i, seqID) ==
    LET b == region.blocks[i + 1]
        startID == getSeqStart(b, seqID)
        endID == getSeqEnd(b, seqID)
        written == { basicBlock[patchIdx + id - startID + 1].address :
                        id \in startID .. endID }
    IN  [a \in (DOMAIN region.instCache) \cup written |->
            IF a \in written
            THEN [blockIdx |-> i,
                  instID |-> CHOOSE id \in startID .. endID :
                      basicBlock[patchIdx + id - startID + 1].address = a]
            ELSE region.instCache[a]]

\* Mutant: the index one past the block registered last.
CurrentBBIdxPastEnd(region) == Len(region.bbRegistry)

\* The bbIdx recorded for a sequence of the block registered last.
CurrentBBIdx(region) == Len(region.bbRegistry) - 1

\* The while loop of writeBasicBlock, from patchIdx on.
RECURSIVE WriteSequences(_, _, _, _, _, _, _)
WriteSequences(region, used, basicBlock, patchIdx, patchEnd, translated, translation) ==
    IF ~(patchIdx < patchEnd)
    THEN [region |-> region, translated |-> translated,
          translation |-> translation, endless |-> FALSE]
    ELSE LET seqType == [entry |-> patchIdx = 0,
                         exit |-> patchEnd = Len(basicBlock)]
             fb == FindBlock(region, used, 0,
                             SubSeq(basicBlock, patchIdx + 1, patchEnd),
                             seqType)
             res == fb.res
             currentSeq == [execBlock |-> fb.region.blocks[fb.i + 1].id,
                            seqID |-> res.seqID,
                            bbIdx |-> CurrentBBIdx(fb.region)]
             lastWritten == basicBlock[patchIdx + res.patchWritten]
             region1 == [fb.region EXCEPT
                 !.sequenceCache =
                     MapSet(@, basicBlock[patchIdx + 1].address, currentSeq),
                 !.instCache =
                     InstMapping(fb.region, basicBlock, patchIdx, fb.i,
                                 res.seqID)]
         IN  IF fb.endless
             THEN [region |-> fb.region, translated |-> translated,
                   translation |-> translation, endless |-> TRUE]
             ELSE WriteSequences(region1, fb.used, basicBlock,
                     patchIdx + res.patchWritten, patchEnd,
                     translated + (lastWritten.address + lastWritten.instSize)
                                - basicBlock[patchIdx + 1].address,
                     translation + res.bytesWritten)

\* The regions updateRegionStat can leave. covered.size() - translated is
\* unsigned: below zero it wraps to a value whose product with the ratio no
\* unsigned holds, and the conversion gives 0 or the largest unsigned,
\* depending on the build.
updateRegionStat(region, translated, E) ==
    LET t == region.translated + translated
        avail == getEpilogueOffset(region.blocks[1])
        reserved == F32MulTrunc(RangeSize(region.covered) - t, E)
        left == IF reserved > avail THEN 0 ELSE avail - reserved
    IN  IF t > RangeSize(region.covered)
        THEN { [region EXCEPT !.translated = t, !.available = a] :
                a \in {0, avail} }
        ELSE { [region EXCEPT !.translated = t, !.available = left] }

\* The outcomes of writeBasicBlock(basicBlock): the regions, the cache and
\* the counters it leaves, the region r it chose and the truncation point.
\* fault: "insert" when findRegion inserts past the end, "endless" when the
\* write loop cannot end.
writeBasicBlock(regs, sc, translation, translated, basicBlock) ==
    LET firstPatch == basicBlock[1]
        lastPatch == basicBlock[Len(basicBlock)]
        codeRange == Range(firstPatch.address,
                           lastPatch.address + lastPatch.instSize)
        fr == findRegion(regs, sc, translation, translated, codeRange)
        r == fr.r
        patchEnd == TruncationPoint(Reg(fr.regions, r), basicBlock)
        registered == [Reg(fr.regions, r) EXCEPT !.bbRegistry =
                          Append(@, [start |-> firstPatch.address,
                                     end |-> lastPatch.address
                                             + lastPatch.instSize])]
        ws == WriteSequences(registered, LiveBlocks(fr.regions), basicBlock,
                             0, patchEnd, 0, 0)
        translation1 == translation + ws.translation
        translated1 == translated + ws.translated
        out(rs, tn, td, pe, f) ==
            [regions |-> rs, searchCache |-> fr.searchCache,
             total_translation_size |-> tn, total_translated_size |-> td,
             r |-> r, patchEnd |-> pe, fault |-> f]
    IN  IF fr.fault
        THEN { out(regs, translation, translated, 0, "insert") }
        ELSE IF patchEnd = 0
        THEN { out(fr.regions, translation, translated, 0, "none") }
        ELSE IF ws.endless
        THEN { out([fr.regions EXCEPT ![r + 1] = ws.region],
                   translation, translated, patchEnd, "endless") }
        ELSE { out([fr.regions EXCEPT ![r + 1] = region],
                   translation1, translated1, patchEnd, "none") :
               region \in updateRegionStat(ws.region, ws.translated,
                   getExpansionRatio(translation1, translated1)) }

\* ---------------------------------------------------------- SequenceLookup

\* return {nullptr, 0}, and the SeqLoc std::map::operator[] inserts for a
\* key it does not hold.
NullSeqLoc == [execBlock |-> NULL, seqID |-> 0, bbIdx |-> 0]

\* Mutant: the split registers a block that ends after its first instruction.
getSeqLocOwnEnd(regs, sc, address) ==
    LET sr == searchRegion(regs, sc, address)
        r == sr.idx
        region == Reg(regs, r)
        instLoc == region.instCache[address]
        block == region.blocks[instLoc.blockIdx + 1]
        existingSeqId == getSeqID(block, instLoc.instID)
        existingBBAddress ==
            getInstAddress(block, getSeqStart(block, existingSeqId))
        seqCache1 == IF existingBBAddress \in DOMAIN region.sequenceCache
                     THEN region.sequenceCache
                     ELSE MapSet(region.sequenceCache, existingBBAddress,
                                 NullSeqLoc)
        existingBBIdx == seqCache1[existingBBAddress].bbIdx
        bbRegistry1 == Append(region.bbRegistry,
                           [start |-> address,
                            end |-> address + InstSize])
        split == splitSequence(block, instLoc.instID)
        seqLoc == [execBlock |-> block.id, seqID |-> split.seqID,
                   bbIdx |-> Len(bbRegistry1) - 1]
    IN  IF r < Len(regs) /\ ContainsAddr(region.covered, address)
           /\ address \in DOMAIN region.sequenceCache
        THEN [regions |-> regs, searchCache |-> sr.searchCache,
              ret |-> region.sequenceCache[address]]
        ELSE IF r < Len(regs) /\ ContainsAddr(region.covered, address)
                /\ address \in DOMAIN region.instCache
        THEN [regions |-> [regs EXCEPT ![r + 1] = [region EXCEPT
                  !.bbRegistry = bbRegistry1,
                  !.blocks[instLoc.blockIdx + 1] = split.block,
                  !.sequenceCache = MapSet(seqCache1, address, seqLoc)]],
              searchCache |-> sr.searchCache, ret |-> seqLoc]
        ELSE [regions |-> regs, searchCache |-> sr.searchCache,
              ret |-> NullSeqLoc]

\* The regions and the cache getSeqLoc(address) leaves, and what it returns.
getSeqLoc(regs, sc, address) ==
    LET sr == searchRegion(regs, sc, address)
        r == sr.idx
        region == Reg(regs, r)
        instLoc == region.instCache[address]
        block == region.blocks[instLoc.blockIdx + 1]
        existingSeqId == getSeqID(block, instLoc.instID)
        existingBBAddress ==
            getInstAddress(block, getSeqStart(block, existingSeqId))
        seqCache1 == IF existingBBAddress \in DOMAIN region.sequenceCache
                     THEN region.sequenceCache
                     ELSE MapSet(region.sequenceCache, existingBBAddress,
                                 NullSeqLoc)
        existingBBIdx == seqCache1[existingBBAddress].bbIdx
        bbRegistry1 == Append(region.bbRegistry,
                           [start |-> address,
                            end |-> region.bbRegistry[existingBBIdx + 1].end])
        split == splitSequence(block, instLoc.instID)
        seqLoc == [execBlock |-> block.id, seqID |-> split.seqID,
                   bbIdx |-> Len(bbRegistry1) - 1]
    IN  IF r < Len(regs) /\ ContainsAddr(region.covered, address)
           /\ address \in DOMAIN region.sequenceCache
        THEN [regions |-> regs, searchCache |-> sr.searchCache,
              ret |-> region.sequenceCache[address]]
        ELSE IF r < Len(regs) /\ ContainsAddr(region.covered, address)
                /\ address \in DOMAIN region.instCache
        THEN [regions |-> [regs EXCEPT ![r + 1] = [region EXCEPT
                  !.bbRegistry = bbRegistry1,
                  !.blocks[instLoc.blockIdx + 1] = split.block,
                  !.sequenceCache = MapSet(seqCache1, address, seqLoc)]],
              searchCache |-> sr.searchCache, ret |-> seqLoc]
        ELSE [regions |-> regs, searchCache |-> sr.searchCache,
              ret |-> NullSeqLoc]

\* seqLoc.execBlock->selectSeq(seqID): the buffer behind the pointer is
\* the one of that id.
SelectThrough(regs, id, seqID) ==
    [i \in 1 .. Len(regs) |-> [regs[i] EXCEPT !.blocks =
        [j \in 1 .. Len(regs[i].blocks) |->
            IF regs[i].blocks[j].id = id
            THEN selectSeq(regs[i].blocks[j], seqID)
            ELSE regs[i].blocks[j]]]]

getExecBlock(regs, sc, address) ==
    LET gs == getSeqLoc(regs, sc, address)
    IN  [regions |-> IF gs.ret.execBlock # NULL
                     THEN SelectThrough(gs.regions, gs.ret.execBlock,
                                        gs.ret.seqID)
                     ELSE gs.regions,
         searchCache |-> gs.searchCache, ret |-> gs.ret.execBlock]

\* The BBInfo getBBInfo(address) points to, or NULL.
getBBInfo(regs, sc, address) ==
    LET sr == searchRegion(regs, sc, address)
        r == sr.idx
    IN  [searchCache |-> sr.searchCache,
         ret |-> IF r < Len(regs)
                    /\ ContainsAddr(Reg(regs, r).covered, address)
                    /\ address \in DOMAIN Reg(regs, r).sequenceCache
                 THEN Reg(regs, r).bbRegistry[
                          Reg(regs, r).sequenceCache[address].bbIdx + 1]
                 ELSE NULL]

\* -------------------------------------------------------- InstAnalysisCache

\* The InstAnalysis objects the manager holds a pointer to.
CachedAnalyses(regs, ac) ==
    { ac[a] : a \in DOMAIN ac }
    \cup UNION { { regs[i].analysisCache[a] :
                     a \in DOMAIN regs[i].analysisCache } :
                 i \in 1 .. Len(regs) }

\* new InstAnalysis: an object at an address none of the cached ones has,
\* holding the facets of type.
NewInstAnalysis(regs, ac, type) ==
    [id |-> FreshId({ x.id : x \in CachedAnalyses(regs, ac) }),
     analysisType |-> type]

\* The nil InstAnalysis pointer.
NullInstAnalysis == [id |-> NULL, analysisType |-> {}]

\* Mutant: an analysis is usable only when it holds exactly the facets asked.
LacksFacetsUnlessEqual(analysisType, type) == analysisType # type

\* (analysisType & type) != type, the masks being the sets of their facets.
LacksFacets(analysisType, type) == ~(type \subseteq analysisType)

\* What analyzeInstMetadata(instMetadata, type) leaves and returns; freed
\* holds the analysis it handed to freeInstAnalysis, if any.
analyzeInstMetadata(regs, sc, ac, instMetadata, type) ==
    LET address == instMetadata.address
        sr == searchRegion(regs, sc, address)
        r == sr.idx
        owned == r < Len(regs) /\ ContainsAddr(Reg(regs, r).covered, address)
        found == owned /\ address \in DOMAIN Reg(regs, r).analysisCache
        cached == Reg(regs, r).analysisCache[address]
        rebuilt == found /\ LacksFacets(cached.analysisType, type)
        instAnalysis == NewInstAnalysis(regs, ac, type)
    IN  IF instMetadata.nil
        THEN [regions |-> regs, analysisCache |-> ac, searchCache |-> sc,
              ret |-> NullInstAnalysis, freed |-> {}]
        ELSE IF found /\ ~rebuilt
        THEN [regions |-> regs, analysisCache |-> ac,
              searchCache |-> sr.searchCache, ret |-> cached, freed |-> {}]
        ELSE IF owned
        THEN [regions |-> [regs EXCEPT ![r + 1].analysisCache =
                              MapSet(@, address, instAnalysis)],
              analysisCache |-> ac, searchCache |-> sr.searchCache,
              ret |-> instAnalysis,
              freed |-> IF rebuilt THEN {cached} ELSE {}]
        ELSE [regions |-> regs,
              analysisCache |-> MapSet(ac, address, instAnalysis),
              searchCache |-> sr.searchCache, ret |-> instAnalysis,
              freed |-> {}]

\* ------------------------------------------------------------ Invalidation

\* Mutant: the scan stops at the first region that overlaps range.
RECURSIVE clearCacheRangeFirstOnly(_, _, _, _)
clearCacheRangeFirstOnly(regs, fl, range, i) ==
    IF ~(i < Len(regs))
    THEN fl
    ELSE IF Overlaps(Reg(regs, i).covered, range)
    THEN Append(fl, i)
    ELSE clearCacheRangeFirstOnly(regs, fl, range, i + 1)

\* clearCache(Range): flushList with the index of every region that
\* overlaps range pushed, in ascending order.
RECURSIVE clearCacheRange(_, _, _, _)
clearCacheRange(regs, fl, range, i) ==
    IF ~(i < Len(regs))
    THEN fl
    ELSE clearCacheRange(regs,
             IF Overlaps(Reg(regs, i).covered, range)
             THEN Append(fl, i) ELSE fl,
             range, i + 1)

\* clearCache(RangeSet): the ranges of the set, one after the other.
RECURSIVE clearCacheRanges(_, _, _)
clearCacheRanges(regs, fl, ranges) ==
    IF ranges = <<>>
    THEN fl
    ELSE clearCacheRanges(regs, clearCacheRange(regs, fl, ranges[1], 0),
                          Tail(ranges))

\* std::sort with std::greater, then std::unique: the distinct indices of
\* flushList, from the largest down.
RECURSIVE SortedUnique(_)
SortedUnique(S) ==
    IF S = {}
    THEN <<>>
    ELSE LET m == CHOOSE x \in S : \A y \in S : y <= x
         IN  <<m>> \o SortedUnique(S \ {m})

eraseRegion(regs, r) == RemoveAt(regs, r)

\* eraseRegion for each index of order in turn; fault when an index is not
\* one of the vector.
RECURSIVE EraseAll(_, _)
EraseAll(regs, order) ==
    IF order = <<>>
    THEN [regions |-> regs, fault |-> FALSE]
    ELSE IF order[1] >= Len(regs)
    THEN [regions |-> regs, fault |-> TRUE]
    ELSE EraseAll(eraseRegion(regs, order[1]), Tail(order))

\* Mutant: only the last region is erased.
clearCacheAllLastOnly(regs) ==
    IF Len(regs) > 0 THEN eraseRegion(regs, Len(regs) - 1) ELSE regs

\* clearCache(): the last region is erased until none is left.
RECURSIVE clearCacheAll(_)
clearCacheAll(regs) ==
    IF Len(regs) > 0
    THEN clearCacheAll(eraseRegion(regs, Len(regs) - 1))
    ELSE regs

\* What flushCommit leaves.
flushCommit(regs, sc, fl, ac) ==
    LET order == SortedUnique({ fl[i] : i \in 1 .. Len(fl) })
        erased == EraseAll(regs, order)
    IN  IF Len(fl) > 0
        THEN [regions |-> erased.regions, flushList |-> <<>>,
              analysisCache |-> EmptyMap,
              searchCache |-> [address |-> 0, regionIdx |-> 0],
              fault |-> IF erased.fault THEN "erase" ELSE "none"]
        ELSE [regions |-> regs, flushList |-> fl, analysisCache |-> ac,
              searchCache |-> sc, fault |-> "none"]

\* ----------------------------------------------------------------- inputs

\* The ranges handed to clearCache(Range).
Ranges ==
    { Range(s, e) : <<s, e>> \in
        { p \in (0 .. MaxAddr) \X (1 .. MaxAddr + 1) : p[1] < p[2] } }

\* The range sets handed to clearCache(RangeSet): one range, or two that
\* do not touch, in ascending order.
RangeSets ==
    { <<a>> : a \in Ranges }
    \cup { <<a, b>> : <<a, b>> \in
            { p \in Ranges \X Ranges : p[1].end < p[2].start } }

\* The facets of an analysis that the requests exercise.
Facets == {"INSTRUCTION", "DISASSEMBLY"}

\* The masks handed to analyzeInstMetadata: one facet, or both.
AnalysisTypes == { {"INSTRUCTION"}, Facets }

\* The nil InstMetadata pointer.
NullInstMetadata == [nil |-> TRUE, address |-> 0]

\* The instruction metadata handed to analyzeInstMetadata: nil, or that of
\* the instruction at an address.
InstMetadatas ==
    {NullInstMetadata}
    \cup { [nil |-> FALSE, address |-> a] : a \in 0 .. MaxAnalysisAddr }

\* ---------------------------------------------------------------- actions

Init ==
    /\ regions = <<>>
    /\ total_translated_size = 1
    /\ total_translation_size = 1
    /\ searchCache = [address |-> 0, regionIdx |-> 0]
    /\ flushList = <<>>
    /\ analysisCache = EmptyMap
    /\ fault = "none"
    /\ calls = 0

\* A public operation is called: the manager is alive and the run has room.
Called ==
    /\ fault = "none"
    /\ calls < MaxCalls
    /\ calls' = calls + 1

WriteBasicBlock(basicBlock) ==
    /\ Called
    /\ \E out \in writeBasicBlock(regions, searchCache,
                      total_translation_size, total_translated_size,
                      basicBlock) :
        /\ regions' = out.regions
        /\ searchCache' = out.searchCache
        /\ total_translation_size' = out.total_translation_size
        /\ total_translated_size' = out.total_translated_size
        /\ fault' = out.fault
    /\ UNCHANGED <<flushList, analysisCache>>

GetSeqLoc(address) ==
    /\ Called
    /\ LET gs == getSeqLoc(regions, searchCache, address)
       IN  /\ regions' = gs.regions
           /\ searchCache' = gs.searchCache
    /\ UNCHANGED <<total_translated_size, total_translation_size, flushList,
                   analysisCache, fault>>

GetExecBlock(address) ==
    /\ Called
    /\ LET ge == getExecBlock(regions, searchCache, address)
       IN  /\ regions' = ge.regions
           /\ searchCache' = ge.searchCache
    /\ UNCHANGED <<total_translated_size, total_translation_size, flushList,
                   analysisCache, fault>>

GetBBInfo(address) ==
    /\ Called
    /\ LET gb == getBBInfo(regions, searchCache, address)
       IN  /\ searchCache' = gb.searchCache
    /\ UNCHANGED <<regions, total_translated_size, total_translation_size,
                   flushList, analysisCache, fault>>

AnalyzeInstMetadata(instMetadata, type) ==
    /\ Called
    /\ LET am == analyzeInstMetadata(regions, searchCache, analysisCache,
                                     instMetadata, type)
       IN  /\ regions' = am.regions
           /\ analysisCache' = am.analysisCache
           /\ searchCache' = am.searchCache
    /\ UNCHANGED <<total_translated_size, total_translation_size, flushList,
                   fault>>

\* Mutant: the regions that overlap range are erased at once.
ClearCacheRangeEager(range) ==
    /\ Called
    /\ flushList' = clearCacheRange(regions, flushList, range, 0)
    /\ regions' = EraseAll(regions,
           SortedUnique({ r \in RegionIdx(regions) :
               Overlaps(Reg(regions, r).covered, range) })).regions
    /\ UNCHANGED <<total_translated_size, total_translation_size,
                   searchCache, analysisCache, fault>>

ClearCacheRange(range) ==
    /\ Called
    /\ flushList' = clearCacheRange(regions, flushList, range, 0)
    /\ UNCHANGED <<regions, total_translated_size, total_translation_size,
                   searchCache, analysisCache, fault>>

ClearCacheRangeSet(rangeSet) ==
    /\ Called
    /\ flushList' = clearCacheRanges(regions, flushList, rangeSet)
    /\ total_translated_size' = 1
    /\ total_translation_size' = 1
    /\ UNCHANGED <<regions, searchCache, analysisCache, fault>>

ClearCacheAll ==
    /\ Called
    /\ regions' = clearCacheAll(regions)
    /\ UNCHANGED <<total_translated_size, total_translation_size,
                   searchCache, flushList, analysisCache, fault>>

FlushCommit ==
    /\ Called
    /\ LET fc == flushCommit(regions, searchCache, flushList, analysisCache)
       IN  /\ regions' = fc.regions
           /\ flushList' = fc.flushList
           /\ analysisCache' = fc.analysisCache
           /\ searchCache' = fc.searchCache
           /\ fault' = fc.fault
    /\ UNCHANGED <<total_translated_size, total_translation_size>>

Next ==
    \/ \E basicBlock \in BasicBlocks : WriteBasicBlock(basicBlock)
    \/ \E address \in Address : GetSeqLoc(address)
    \/ \E address \in Address : GetExecBlock(address)
    \/ \E address \in Address : GetBBInfo(address)
    \/ \E range \in Ranges : ClearCacheRange(range)
    \/ \E rangeSet \in RangeSets : ClearCacheRangeSet(rangeSet)
    \/ ClearCacheAll
    \/ FlushCommit

Spec == Init /\ [][Next]_vars

\* The guest addresses of the runs that ask for instruction analyses: the
\* analysed ones and one more, so that a region can end past them.
AnalysisAddress == 0 .. MaxAnalysisAddr + 1

AnalysisBlocks ==
    { basicBlock \in BasicBlocks :
        \A i \in DOMAIN basicBlock :
            basicBlock[i].address \in AnalysisAddress }

AnalysisRanges == { range \in Ranges : range.end <= MaxAnalysisAddr + 2 }

AnalysisRangeSets ==
    { rangeSet \in RangeSets :
        \A i \in DOMAIN rangeSet : rangeSet[i] \in AnalysisRanges }

\* The runs that also ask for instruction analyses.
NextAnalysis ==
    \/ \E basicBlock \in AnalysisBlocks : WriteBasicBlock(basicBlock)
    \/ \E address \in AnalysisAddress : GetSeqLoc(address)
    \/ \E address \in AnalysisAddress : GetExecBlock(address)
    \/ \E address \in AnalysisAddress : GetBBInfo(address)
    \/ \E range \in AnalysisRanges : ClearCacheRange(range)
    \/ \E rangeSet \in AnalysisRangeSets : ClearCacheRangeSet(rangeSet)
    \/ ClearCacheAll
    \/ FlushCommit
    \/ \E instMetadata \in InstMetadatas, type \in AnalysisTypes :
          AnalyzeInstMetadata(instMetadata, type)

SpecAnalysis == Init /\ [][NextAnalysis]_vars

\* ----------------------------------------------------------------- claims

\* C1: the regions never overlap: for any two indices i < j,
\* regions[i].covered.end <= regions[j].covered.start.
RegionsNeverOverlap ==
    \A i, j \in RegionIdx(regions) :
        i < j => Reg(regions, i).covered.end <= Reg(regions, j).covered.start

\* C2: the regions array is sorted by covered.start: for every i < j,
\* regions[i].covered.start <= regions[j].covered.start.
RegionsSortedByStart ==
    \A i, j \in RegionIdx(regions) :
        i < j => Reg(regions, i).covered.start <= Reg(regions, j).covered.start

\* C3: a guest address is a key of the sequenceCache of at most one region
\* and a key of the instCache of at most one region.
AddressInOneRegion ==
    \A i, j \in RegionIdx(regions) :
        i # j =>
            /\ DOMAIN Reg(regions, i).sequenceCache
                 \cap DOMAIN Reg(regions, j).sequenceCache = {}
            /\ DOMAIN Reg(regions, i).instCache
                 \cap DOMAIN Reg(regions, j).instCache = {}

\* C4: for every region, translated <= covered.size().
TranslatedWithinCovered ==
    \A r \in RegionIdx(regions) :
        Reg(regions, r).translated <= RangeSize(Reg(regions, r).covered)

\* The buffers of a region, by pointer.
BlockIds(region) == { region.blocks[j].id : j \in 1 .. Len(region.blocks) }

\* The buffer behind a pointer.
BlockAt(regs, id) ==
    LET where == CHOOSE p \in
            { q \in (1 .. Len(regs)) \X (1 .. Cardinality(LiveBlocks(regs))) :
                /\ q[2] <= Len(regs[q[1]].blocks)
                /\ regs[q[1]].blocks[q[2]].id = id } : TRUE
    IN  regs[where[1]].blocks[where[2]]

\* The sequence entry at address a of the region came from a lazy split:
\* its first instruction still belongs to the sequence it was written in.
IsSplitEntry(region, a) ==
    LET s == region.sequenceCache[a]
        b == CHOOSE x \in { region.blocks[j] : j \in 1 .. Len(region.blocks) } :
                x.id = s.execBlock
    IN  getSeqID(b, getSeqStart(b, s.seqID)) # s.seqID

\* C5: every SeqLoc s stored in regions[r].sequenceCache satisfies
\* s.bbIdx < regions[r].bbRegistry.size() and s.execBlock is one of the
\* buffers in regions[r].blocks, a buffer no other region owns.
SeqLocWithinRegion ==
    \A r \in RegionIdx(regions) :
        \A a \in DOMAIN Reg(regions, r).sequenceCache :
            LET s == Reg(regions, r).sequenceCache[a]
            IN  /\ s.bbIdx < Len(Reg(regions, r).bbRegistry)
                /\ s.execBlock \in BlockIds(Reg(regions, r))
                /\ \A o \in RegionIdx(regions) :
                      o # r => s.execBlock \notin BlockIds(Reg(regions, o))

\* C5 witness: a region holds a sequence entry written by writeBasicBlock
\* into an overflow buffer and a sequence entry made by a lazy split.
SeqLocWithinRegionWitness ==
    \E r \in RegionIdx(regions) :
        LET region == Reg(regions, r)
        IN  /\ Len(region.blocks) >= 2
            /\ \E a \in DOMAIN region.sequenceCache :
                  /\ ~IsSplitEntry(region, a)
                  /\ region.sequenceCache[a].execBlock = region.blocks[2].id
            /\ \E a \in DOMAIN region.sequenceCache : IsSplitEntry(region, a)

\* C6: for every address a that is a key of some region's sequenceCache,
\* getExecBlock(a) returns a non-nil buffer, the one recorded in
\* sequenceCache[a], and leaves it with the recorded seqID selected.
ExecBlockForEverySequence ==
    fault = "none" =>
        \A r \in RegionIdx(regions) :
            \A a \in DOMAIN Reg(regions, r).sequenceCache :
                LET s == Reg(regions, r).sequenceCache[a]
                    ge == getExecBlock(regions, searchCache, a)
                IN  /\ ge.ret # NULL
                    /\ ge.ret = s.execBlock
                    /\ BlockAt(ge.regions, ge.ret).currentSeq = s.seqID

\* C7: for every address a that is a key of some region's instCache but not
\* of its sequenceCache, getSeqLoc(a) returns a non-nil SeqLoc; after the
\* call sequenceCache[a] exists in that region and its execBlock is the
\* buffer blocks[instCache[a].blockIdx]; a second getSeqLoc(a) returns the
\* same SeqLoc and splits nothing.
LazySplitSucceeds ==
    fault = "none" =>
        \A r \in RegionIdx(regions) :
            \A a \in DOMAIN Reg(regions, r).instCache
                        \ DOMAIN Reg(regions, r).sequenceCache :
                LET gs == getSeqLoc(regions, searchCache, a)
                    after == Reg(gs.regions, r)
                    again == getSeqLoc(gs.regions, gs.searchCache, a)
                IN  /\ gs.ret.execBlock # NULL
                    /\ a \in DOMAIN after.sequenceCache
                    /\ after.sequenceCache[a] = gs.ret
                    /\ gs.ret.execBlock =
                         after.blocks[after.instCache[a].blockIdx + 1].id
                    /\ again.ret = gs.ret
                    /\ again.regions = gs.regions

\* The instructions the buffer of pointer id holds in regs; none when no
\* region owns such a buffer.
InstCount(regs, id) ==
    IF id \in LiveBlocks(regs) THEN Len(BlockAt(regs, id).insts) ELSE 0

\* C8: when writeBasicBlock(B) returns, every patch address of B with index
\* below the truncation point patchEnd is a key of the instCache of the
\* region chosen by findRegion, mapped to the buffer index and instruction
\* id where that patch was written by this call, and the address of B's
\* first patch is a key of that region's sequenceCache.
WrittenBlockIsCached ==
    fault = "none" =>
        \A basicBlock \in BasicBlocks :
            \A out \in writeBasicBlock(regions, searchCache,
                           total_translation_size, total_translated_size,
                           basicBlock) :
                out.fault = "none" =>
                    LET region == Reg(out.regions, out.r)
                    IN  /\ basicBlock[1].address \in DOMAIN region.sequenceCache
                        /\ \A i \in 0 .. out.patchEnd - 1 :
                              LET a == basicBlock[i + 1].address
                                  loc == region.instCache[a]
                                  b == region.blocks[loc.blockIdx + 1]
                              IN  /\ a \in DOMAIN region.instCache
                                  /\ loc.blockIdx < Len(region.blocks)
                                  /\ loc.instID < Len(b.insts)
                                  /\ loc.instID >= InstCount(regions, b.id)
                                  /\ getInstAddress(b, loc.instID) = a

\* C8 witness: a region holds instructions written into an overflow buffer,
\* and a block can be submitted that is cut after its first patch and
\* before its last one.
WrittenBlockIsCachedWitness ==
    /\ fault = "none"
    /\ \E r \in RegionIdx(regions) :
         \E a \in DOMAIN Reg(regions, r).instCache :
            Reg(regions, r).instCache[a].blockIdx = 1
    /\ \E basicBlock \in BasicBlocks :
         \E out \in writeBasicBlock(regions, searchCache,
                        total_translation_size, total_translated_size,
                        basicBlock) :
            /\ out.fault = "none"
            /\ 0 < out.patchEnd
            /\ out.patchEnd < Len(basicBlock)

\* The regions of a vector, as a set.
RegionSet(regs) == { regs[i] : i \in 1 .. Len(regs) }

\* What clearCache(range) followed at once by flushCommit() leaves of the
\* regions: fault "none", every region that overlapped range gone, every
\* other region still there as it was.
ClearedExactly(range) ==
    LET fl == clearCacheRange(regions, flushList, range, 0)
        fc == flushCommit(regions, searchCache, fl, analysisCache)
    IN  /\ fc.fault = "none"
        /\ \A r \in RegionIdx(regions) :
              IF Overlaps(Reg(regions, r).covered, range)
              THEN Reg(regions, r) \notin RegionSet(fc.regions)
              ELSE Reg(regions, r) \in RegionSet(fc.regions)

\* C9 as stated: for every range and every reachable pre-state, after
\* clearCache(range) immediately followed by flushCommit(), no region whose
\* covered range overlapped range before the call remains, and every region
\* that did not overlap it is still present, unchanged.
RangeClearedAfterCommit ==
    fault = "none" => \A range \in Ranges : ClearedExactly(range)

\* C9 amended: the same, for the pre-states whose flushList is empty; the
\* regions at indices queued earlier are erased by the commit as well.
RangeClearedAfterCommitFromEmpty ==
    (fault = "none" /\ flushList = <<>>) =>
        \A range \in Ranges : ClearedExactly(range)

\* C9 witness: nothing is queued, and some range overlaps one region that
\* holds translated code and leaves another one alone.
RangeClearedAfterCommitWitness ==
    /\ fault = "none"
    /\ flushList = <<>>
    /\ \E range \in Ranges :
         \E i, j \in RegionIdx(regions) :
            /\ Overlaps(Reg(regions, i).covered, range)
            /\ ~Overlaps(Reg(regions, j).covered, range)
            /\ DOMAIN Reg(regions, i).sequenceCache # {}
            /\ DOMAIN Reg(regions, j).sequenceCache # {}
            /\ LET fl == clearCacheRange(regions, flushList, range, 0)
               IN  Len(flushCommit(regions, searchCache, fl,
                                   analysisCache).regions) < Len(regions)

\* C10: clearCache(range) changes nothing but flushList, and every
\* getSeqLoc, getExecBlock and getBBInfo call returns after it what it
\* would have returned before it.
ClearCacheRangeOnlyQueues ==
    [][(\E range \in Ranges : ClearCacheRange(range)) =>
        /\ UNCHANGED <<regions, total_translated_size,
                       total_translation_size, searchCache, analysisCache,
                       fault>>
        /\ \A a \in Address :
              /\ getSeqLoc(regions', searchCache', a).ret
                   = getSeqLoc(regions, searchCache, a).ret
              /\ getExecBlock(regions', searchCache', a).ret
                   = getExecBlock(regions, searchCache, a).ret
              /\ getBBInfo(regions', searchCache', a).ret
                   = getBBInfo(regions, searchCache, a).ret]_vars

\* C10 witness: a region that holds translated code is queued for erasure
\* and still there.
ClearCacheRangeOnlyQueuesWitness ==
    /\ fault = "none"
    /\ \E i \in 1 .. Len(flushList) :
          /\ flushList[i] < Len(regions)
          /\ DOMAIN Reg(regions, flushList[i]).sequenceCache # {}

\* The block's guest range, as writeBasicBlock computes it.
CodeRange(basicBlock) ==
    Range(basicBlock[1].address,
          basicBlock[Len(basicBlock)].address
              + basicBlock[Len(basicBlock)].instSize)

\* C11: for every block B and every reachable pre-state, calling
\* writeBasicBlock(B) twice in a row leaves the same state as calling it
\* once: the second call changes no region (covered, sequenceCache,
\* instCache, bbRegistry, translated, available, buffers), adds no region and
\* leaves total_translation_size and total_translated_size unchanged.
WriteTwiceIsWriteOnce ==
    fault = "none" =>
        \A basicBlock \in BasicBlocks :
            \A once \in writeBasicBlock(regions, searchCache,
                            total_translation_size, total_translated_size,
                            basicBlock) :
                once.fault = "none" =>
                    \A twice \in writeBasicBlock(once.regions,
                                     once.searchCache,
                                     once.total_translation_size,
                                     once.total_translated_size, basicBlock) :
                        /\ twice.fault = "none"
                        /\ twice.patchEnd = 0
                        /\ twice.regions = once.regions
                        /\ twice.searchCache = once.searchCache
                        /\ twice.total_translation_size
                             = once.total_translation_size
                        /\ twice.total_translated_size
                             = once.total_translated_size

\* C11 witness: regions exist, and a block can be submitted whose first call
\* is cut by truncation after writing some of its patches into a region
\* that already held code.
WriteTwiceIsWriteOnceWitness ==
    /\ fault = "none"
    /\ Len(regions) >= 2
    /\ \E basicBlock \in BasicBlocks :
         \E once \in writeBasicBlock(regions, searchCache,
                         total_translation_size, total_translated_size,
                         basicBlock) :
            /\ once.fault = "none"
            /\ 0 < once.patchEnd
            /\ once.patchEnd < Len(basicBlock)
            /\ once.regions # regions
            /\ Len(once.regions) = Len(regions)

\* C12: when writeBasicBlock is given a block whose first patch address is
\* already a key of the chosen region's sequenceCache (patchEnd == 0), the
\* call is a no-op: no region is created, no covered range is extended, and
\* no cache, registry, buffer or counter changes, also when the block's
\* guest range reaches beyond the covered range of the region that holds its
\* first address.
AlreadyTranslatedIsNoOp ==
    fault = "none" =>
        \A basicBlock \in BasicBlocks :
            \A out \in writeBasicBlock(regions, searchCache,
                           total_translation_size, total_translated_size,
                           basicBlock) :
                (out.fault = "none" /\ out.patchEnd = 0) =>
                    /\ out.regions = regions
                    /\ out.total_translation_size = total_translation_size
                    /\ out.total_translated_size = total_translated_size

\* The index searchRegion finds without its one-slot cache.
searchRegionUncached(regs, address) ==
    IF Len(regs) = 0 THEN 0 ELSE BinarySearch(regs, address, 0, Len(regs))

\* The regions whose covered range contains address.
Containing(regs, address) ==
    { i \in RegionIdx(regs) : ContainsAddr(Reg(regs, i).covered, address) }

\* The regions that start at or before address.
StartingBefore(regs, address) ==
    { i \in RegionIdx(regs) : Reg(regs, i).covered.start <= address }

\* idx is what searchRegion(address) is stated to return on regs.
IsStatedIndex(regs, address, idx) ==
    /\ Containing(regs, address) # {} => idx \in Containing(regs, address)
    /\ (Containing(regs, address) = {}
            /\ StartingBefore(regs, address) # {}) =>
          /\ idx \in StartingBefore(regs, address)
          /\ \A i \in StartingBefore(regs, address) : i <= idx
    /\ StartingBefore(regs, address) = {} => idx = 0
    /\ idx >= Len(regs) => Len(regs) = 0

\* C13: in every reachable state and for every address, searchRegion(addr)
\* returns the index of the region whose covered range contains addr when
\* there is one; otherwise the index of the last region with covered.start
\* <= addr, or 0 when addr precedes all regions or regions is empty; the
\* index is >= regions.size() only when regions is empty; and the result is
\* the same whether or not the one-slot cache is hit.
SearchRegionReturnsStatedIndex ==
    fault = "none" =>
        \A address \in Address :
            /\ IsStatedIndex(regions, address,
                   searchRegion(regions, searchCache, address).idx)
            /\ searchRegion(regions, searchCache, address).idx
                 = searchRegionUncached(regions, address)

\* C14: a pointer returned by analyzeInstMetadata stays valid until the next
\* invalidation commit that erases the region owning it: no other operation,
\* in particular no later analyzeInstMetadata call for the same address with
\* a different facet mask, destroys an analysis that was returned earlier.
\* Every cached analysis was returned by the call that built it.
ReturnedAnalysisStaysValid ==
    fault = "none" =>
        /\ \A instMetadata \in InstMetadatas, type \in AnalysisTypes :
              analyzeInstMetadata(regions, searchCache, analysisCache,
                                  instMetadata, type).freed = {}
        /\ \A address \in Address :
              /\ CachedAnalyses(regions, analysisCache) \subseteq
                   CachedAnalyses(
                       getSeqLoc(regions, searchCache, address).regions,
                       analysisCache)
              /\ CachedAnalyses(regions, analysisCache) \subseteq
                   CachedAnalyses(
                       getExecBlock(regions, searchCache, address).regions,
                       analysisCache)

\* The analyses cached for address, in any region and manager-wide.
AnalysesAt(regs, ac, address) ==
    (IF address \in DOMAIN ac THEN {ac[address]} ELSE {})
    \cup UNION { IF address \in DOMAIN regs[i].analysisCache
                 THEN {regs[i].analysisCache[address]} ELSE {} :
                 i \in 1 .. Len(regs) }

\* What C15 states of analyzeInstMetadata(m, t) in the current state, the
\* owning region being the one searchRegion locates. single: the result of
\* a build is the only analysis cached for the address afterwards.
AnalysisAsStated(instMetadata, type, single) ==
    LET am == analyzeInstMetadata(regions, searchCache, analysisCache,
                                  instMetadata, type)
        address == instMetadata.address
        r == searchRegion(regions, searchCache, address).idx
        owned == r < Len(regions)
                   /\ ContainsAddr(Reg(regions, r).covered, address)
        hit == /\ owned
               /\ address \in DOMAIN Reg(regions, r).analysisCache
               /\ type \subseteq
                    Reg(regions, r).analysisCache[address].analysisType
    IN  IF instMetadata.nil
        THEN /\ am.ret = NullInstAnalysis
             /\ am.regions = regions
             /\ am.analysisCache = analysisCache
        ELSE /\ am.ret # NullInstAnalysis
             /\ type \subseteq am.ret.analysisType
             /\ hit =>
                  /\ am.ret = Reg(regions, r).analysisCache[address]
                  /\ am.regions = regions
                  /\ am.analysisCache = analysisCache
             /\ ~hit =>
                  /\ am.ret.analysisType = type
                  /\ am.ret \notin CachedAnalyses(regions, analysisCache)
                  /\ IF owned
                     THEN /\ Reg(am.regions, r).analysisCache[address] = am.ret
                          /\ am.analysisCache = analysisCache
                     ELSE /\ am.analysisCache[address] = am.ret
                          /\ am.regions = regions
                  /\ single =>
                       AnalysesAt(am.regions, am.analysisCache, address)
                         = {am.ret}

\* C15 as stated: analyzeInstMetadata(m, t) returns an analysis whose facets
\* include those of t; when the owning region caches a superset for m's
\* address that same analysis is returned and nothing is rebuilt; otherwise
\* the result is built with exactly the facets of t and becomes the single
\* cached analysis for that address; a nil m returns nil and changes no
\* cache.
AnalysisIsSingleCached ==
    fault = "none" =>
        \A instMetadata \in InstMetadatas, type \in AnalysisTypes :
            AnalysisAsStated(instMetadata, type, TRUE)

\* C15 amended: the same, the built result becoming the entry for that
\* address in the cache that takes it (the owning region's, or the
\* manager-wide one when no region contains the address); an entry of the
\* other cache for the same address stays.
AnalysisIsCachedWhereOwned ==
    fault = "none" =>
        \A instMetadata \in InstMetadatas, type \in AnalysisTypes :
            AnalysisAsStated(instMetadata, type, FALSE)

\* C15 witness: a region caches an analysis with both facets, so that a
\* request for one facet is a hit, another region-cached analysis lacks a
\* facet, so that a request for both rebuilds it, and an analysis is cached
\* manager-wide.
AnalysisIsCachedWhereOwnedWitness ==
    /\ fault = "none"
    /\ DOMAIN analysisCache # {}
    /\ \E i, j \in RegionIdx(regions) :
          /\ \E a \in DOMAIN Reg(regions, i).analysisCache :
                Reg(regions, i).analysisCache[a].analysisType = Facets
          /\ \E a \in DOMAIN Reg(regions, j).analysisCache :
                Reg(regions, j).analysisCache[a].analysisType # Facets

\* C16: from every reachable state, clearCache() leaves regions empty, after
\* which getSeqLoc, getExecBlock and getBBInfo return nil for every address
\* and the next writeBasicBlock creates the first region at index 0; a
\* second clearCache() right after the first changes nothing.
ClearCacheAllEmptiesRegions ==
    [][ClearCacheAll =>
        /\ regions' = <<>>
        /\ clearCacheAll(regions') = regions'
        /\ UNCHANGED <<total_translated_size, total_translation_size,
                       analysisCache, fault>>
        /\ \A address \in Address :
              /\ getSeqLoc(regions', searchCache', address).ret = NullSeqLoc
              /\ getSeqLoc(regions', searchCache', address).regions = <<>>
              /\ getExecBlock(regions', searchCache', address).ret = NULL
              /\ getBBInfo(regions', searchCache', address).ret = NULL
        /\ \A basicBlock \in BasicBlocks :
              \A out \in writeBasicBlock(regions', searchCache',
                             total_translation_size', total_translated_size',
                             basicBlock) :
                  /\ out.fault # "insert"
                  /\ out.r = 0
                  /\ Len(out.regions) = 1
                  /\ Reg(out.regions, 0).covered = CodeRange(basicBlock)
                  /\ out.patchEnd = Len(basicBlock)]_vars

\* C16 witness: clearCache() has emptied regions and left behind a one-slot
\* cache that points past the first region and indices queued for erasure.
ClearCacheAllEmptiesRegionsWitness ==
    /\ fault = "none"
    /\ regions = <<>>
    /\ searchCache.regionIdx >= 1
    /\ flushList # <<>>

\* C17: invalidating a single range resets the translation counters: after
\* clearCache(range) with one range followed by flushCommit(),
\* total_translated_size and total_translation_size are both 1, as they are
\* after clearCache(rangeSet). The flushCommit steps meant are those taken
\* with flushList as clearCache(range) leaves it.
RangeCommitResetsCounters ==
    [][(/\ FlushCommit
        /\ flushList # <<>>
        /\ \E range \in Ranges :
              flushList = clearCacheRange(regions, <<>>, range, 0))
       => (total_translated_size' = 1 /\ total_translation_size' = 1)]_vars

\* C18: writeBasicBlock always ends: when a buffer of the region is full the
\* block goes into a later or newly allocated buffer of the same region and
\* the call returns with all patches below patchEnd written; when
\* writeSequence returns FULL even for a newly created empty buffer, the
\* call ends in a fatal abort instead of continuing to allocate buffers.
\* fault = "endless": the write loop of the last call allocates buffer
\* after buffer and never leaves.
WriteBasicBlockAlwaysEnds ==
    /\ fault # "endless"
    /\ fault = "none" =>
          \A basicBlock \in BasicBlocks :
              \A out \in writeBasicBlock(regions, searchCache,
                             total_translation_size, total_translated_size,
                             basicBlock) :
                  out.fault = "none" =>
                      \A i \in 0 .. out.patchEnd - 1 :
                          basicBlock[i + 1].address
                            \in DOMAIN Reg(out.regions, out.r).instCache

\* searchCache = {0, 0}, as the constructor and flushCommit set it.
ResetSearchCache == [address |-> 0, regionIdx |-> 0]

\* C19: the one-slot search cache is invalidated (reset so that it cannot
\* produce a hit for a previously queried address) by every operation that
\* erases a region, inserts a region or resets the translation counters:
\* flushCommit, clearCache(), findRegion when it inserts, and
\* clearCache(rangeSet); consequently a cache hit never returns an index
\* that differs from what the binary search returns on the current regions.
\* After such a step no lookup can hit (regions is empty), or the slot is
\* reset, or, for an insert, the slot is the entry of the new region.
SearchCacheInvalidated ==
    [][/\ ((\/ FlushCommit /\ flushList # <<>>
            \/ ClearCacheAll /\ regions # <<>>
            \/ \E rangeSet \in RangeSets : ClearCacheRangeSet(rangeSet))
           => (regions' = <<>> \/ searchCache' = ResetSearchCache))
       /\ \A basicBlock \in BasicBlocks :
             (WriteBasicBlock(basicBlock) /\ Len(regions') > Len(regions))
             => /\ searchCache'.address = CodeRange(basicBlock).start
                /\ Reg(regions', searchCache'.regionIdx).covered
                     = CodeRange(basicBlock)
       /\ (fault' = "none" /\ regions' # <<>>)
             => searchCache'.regionIdx
                  = searchRegionUncached(regions', searchCache'.address)
      ]_vars

\* max(0, codeRange.end - covered.end) + max(0, covered.start -
\* codeRange.start), as the policy states the extension cost.
StatedCost(covered, codeRange) ==
    (IF codeRange.end - covered.end > 0
     THEN codeRange.end - covered.end ELSE 0)
    + (IF covered.start - codeRange.start > 0
       THEN covered.start - codeRange.start ELSE 0)

\* The candidates of findRegion(codeRange): low, low+1, low+2 within regions.
Candidates(codeRange) ==
    LET low == searchRegion(regions, searchCache, codeRange.start).idx
    IN  { i \in low .. low + 2 : i < Len(regions) }

\* The candidates whose extension is within budget: cost * E < available,
\* E being the float getExpansionRatio() returns. available is an integer,
\* so the float product is below it exactly when its integer part is.
Affordable(codeRange) ==
    { i \in Candidates(codeRange) :
        F32MulTrunc(StatedCost(Reg(regions, i).covered, codeRange),
                    getExpansionRatio(total_translation_size,
                                      total_translated_size))
          < Reg(regions, i).available }

\* The guest ranges of the blocks handed to writeBasicBlock.
CodeRanges == { CodeRange(basicBlock) : basicBlock \in BasicBlocks }

\* What C20 states of findRegion(codeRange) in the current state.
FindRegionAsStated(codeRange) ==
    LET fr == findRegion(regions, searchCache, total_translation_size,
                         total_translated_size, codeRange)
        containing == { i \in Candidates(codeRange) :
                          ContainsRange(Reg(regions, i).covered, codeRange) }
        affordable == Affordable(codeRange)
    IN  /\ ~fr.fault
        /\ fr.r < Len(fr.regions)
        /\ ContainsRange(Reg(fr.regions, fr.r).covered, codeRange)
        /\ IF containing # {}
           THEN /\ fr.r \in containing
                /\ fr.regions = regions
           ELSE IF affordable # {}
           THEN /\ fr.r \in affordable
                /\ \A i \in affordable :
                      StatedCost(Reg(regions, fr.r).covered, codeRange)
                        <= StatedCost(Reg(regions, i).covered, codeRange)
                /\ Reg(regions, fr.r).available # 0
                /\ Len(fr.regions) = Len(regions)
                /\ \A i \in RegionIdx(regions) \ {fr.r} :
                      Reg(fr.regions, i) = Reg(regions, i)
                /\ Reg(fr.regions, fr.r) =
                     [Reg(regions, fr.r) EXCEPT !.covered =
                        Range(IF codeRange.start < @.start
                              THEN codeRange.start ELSE @.start,
                              IF codeRange.end > @.end
                              THEN codeRange.end ELSE @.end)]
           ELSE /\ Len(fr.regions) = Len(regions) + 1
                /\ Reg(fr.regions, fr.r).covered = codeRange
                /\ Reg(fr.regions, fr.r).translated = 0
                /\ Reg(fr.regions, fr.r).available = 0
                /\ Reg(fr.regions, fr.r).blocks = <<>>
                /\ RemoveAt(fr.regions, fr.r) = regions

\* C20: findRegion(codeRange) follows the stated policy over the candidates
\* low, low+1, low+2: a candidate that contains codeRange is returned and
\* no covered range changes; otherwise the candidate with the smallest
\* extension cost among those with cost * E < available is extended to the
\* union with codeRange and returned; otherwise a new region {codeRange, 0,
\* 0, no buffers} is inserted. In every case regions[result].covered
\* contains codeRange on return, and a region with available = 0 is never
\* extended.
FindRegionFollowsPolicy ==
    fault = "none" =>
        \A codeRange \in CodeRanges : FindRegionAsStated(codeRange)

\* C20 witness: for some block range no candidate contains it and two
\* candidates are within budget, the second one being the cheaper.
FindRegionFollowsPolicyWitness ==
    /\ fault = "none"
    /\ \E codeRange \in CodeRanges :
          /\ \A i \in Candidates(codeRange) :
                ~ContainsRange(Reg(regions, i).covered, codeRange)
          /\ \E i, j \in Affordable(codeRange) :
                /\ i < j
                /\ StatedCost(Reg(regions, j).covered, codeRange)
                     < StatedCost(Reg(regions, i).covered, codeRange)

\* The indices pushed on flushList, each one once.
Listed == { flushList[i] : i \in 1 .. Len(flushList) }

\* regs without the regions at the indices of S, the others in their order.
RegionsWithout(regs, S) ==
    LET keep == RegionIdx(regs) \ S
    IN  [k \in 1 .. Cardinality(keep) |->
            Reg(regs, CHOOSE i \in keep :
                          Cardinality({ j \in keep : j < i }) = k - 1)]

\* What C21 states of a flushCommit step.
FlushCommitAsStated ==
    IF flushList # <<>>
    THEN /\ fault' = "none"
         /\ regions' = RegionsWithout(regions, Listed)
         /\ Len(regions') = Len(regions) - Cardinality(Listed)
         /\ flushList' = <<>>
         /\ analysisCache' = EmptyMap
         /\ searchCache' = ResetSearchCache
    ELSE UNCHANGED <<regions, flushList, analysisCache, searchCache,
                     total_translated_size, total_translation_size, fault>>

\* C21: flushCommit with a non-empty flushList erases each listed region
\* exactly once, also when an index was pushed several times, from the
\* largest index down; afterwards flushList is empty, the manager-wide
\* analysisCache is empty and the search cache is reset. With an empty
\* flushList it changes nothing, the manager-wide analysisCache included.
FlushCommitErasesListedOnce ==
    [][FlushCommit => FlushCommitAsStated]_vars

\* What C22 states of a lazy split at address in region r: old is the
\* region before the call, new the region after it.
LazySplitAsStated(address, r) ==
    LET old == Reg(regions, r)
        new == Reg(regions', r)
        instLoc == old.instCache[address]
        block == old.blocks[instLoc.blockIdx + 1]
        containing ==
            { a \in DOMAIN old.sequenceCache :
                /\ old.sequenceCache[a].execBlock = block.id
                /\ old.sequenceCache[a].seqID
                     = getSeqID(block, instLoc.instID) }
    IN  /\ address \in DOMAIN old.instCache
        /\ address \notin DOMAIN old.sequenceCache
        /\ \E a \in containing :
              LET end == old.bbRegistry[old.sequenceCache[a].bbIdx + 1].end
              IN  /\ new.bbRegistry = Append(old.bbRegistry,
                                         [start |-> address, end |-> end])
                  /\ getBBInfo(regions', searchCache', address).ret
                       = [start |-> address, end |-> end]
        /\ DOMAIN new.sequenceCache
             = DOMAIN old.sequenceCache \cup {address}
        /\ \A a \in DOMAIN old.sequenceCache :
              new.sequenceCache[a] = old.sequenceCache[a]
        /\ new.instCache = old.instCache
        /\ \A i \in RegionIdx(regions) \ {r} :
              Reg(regions', i).bbRegistry = Reg(regions, i).bbRegistry

\* Every sequenceCache entry at address a has a registered block with
\* bbRegistry[bbIdx].start <= a < bbRegistry[bbIdx].end.
SequencesInsideTheirBlock(regs) ==
    \A r \in RegionIdx(regs) : \A a \in DOMAIN Reg(regs, r).sequenceCache :
        LET bbIdx == Reg(regs, r).sequenceCache[a].bbIdx
        IN  /\ bbIdx < Len(Reg(regs, r).bbRegistry)
            /\ Reg(regs, r).bbRegistry[bbIdx + 1].start <= a
            /\ a < Reg(regs, r).bbRegistry[bbIdx + 1].end

\* A getSeqLoc(address) or getExecBlock(address) step that splits in region r.
IsLazySplit(address, r) ==
    /\ Len(regions') = Len(regions)
    /\ Reg(regions', r).bbRegistry # Reg(regions, r).bbRegistry
    /\ GetSeqLoc(address) \/ GetExecBlock(address)

\* C22: a lazy split in getSeqLoc(addr) appends exactly one entry
\* {addr, end} to the region's bbRegistry, end being the end address of the
\* basic block record of the sequence that contained addr before the split;
\* the earlier bbRegistry entries, the earlier sequenceCache entries and the
\* instCache are unchanged, and afterwards getBBInfo(addr) returns
\* {addr, end}. Every sequenceCache entry at address a has
\* bbRegistry[bbIdx].start <= a < bbRegistry[bbIdx].end.
LazySplitRegistersBlock ==
    [][/\ \A r \in RegionIdx(regions) : \A address \in Address :
             IsLazySplit(address, r) => LazySplitAsStated(address, r)
       /\ fault' = "none" => SequencesInsideTheirBlock(regions')]_vars

\* C22 witness: a region after a lazy split: one of its sequenceCache
\* entries has a registered block that starts at the entry's address and
\* ends where the block of an entry at a lower address ends.
LazySplitRegistersBlockWitness ==
    /\ fault = "none"
    /\ \E r \in RegionIdx(regions) :
          \E a, b \in DOMAIN Reg(regions, r).sequenceCache :
              LET region == Reg(regions, r)
                  ea == region.sequenceCache[a]
                  eb == region.sequenceCache[b]
              IN  /\ b < a
                  /\ IsSplitEntry(region, a)
                  /\ ea.bbIdx # eb.bbIdx
                  /\ ea.execBlock = eb.execBlock
                  /\ region.bbRegistry[ea.bbIdx + 1]
                       = [start |-> a,
                          end |-> region.bbRegistry[eb.bbIdx + 1].end]
                  /\ region.bbRegistry[eb.bbIdx + 1].start = b
                  /\ ea.bbIdx = Len(region.bbRegistry) - 1

\* flushCommit on regs with flushList fl erases only regions that own the
\* buffers of a region of marked, and every index it erases is one of regs.
CommitErasesOnlyMarked(regs, fl, marked) ==
    LET fc == flushCommit(regs, ResetSearchCache, fl, EmptyMap)
        kept == { BlockIds(fc.regions[i]) : i \in 1 .. Len(fc.regions) }
    IN  /\ fc.fault = "none"
        /\ \A i \in 1 .. Len(regs) :
              BlockIds(regs[i]) \notin kept
              => \E m \in marked : m # {} /\ m \subseteq BlockIds(regs[i])

\* What C23 states of the calls that may follow a clearCache(range) that
\* marked regions on an empty flushList: a commit right away, a commit
\* after one writeBasicBlock, a commit after clearCache().
MarkedStaysMarked ==
    LET marked == { BlockIds(Reg(regions', r)) :
                      r \in { flushList'[i] : i \in 1 .. Len(flushList') } }
    IN  /\ CommitErasesOnlyMarked(regions', flushList', marked)
        /\ CommitErasesOnlyMarked(clearCacheAll(regions'), flushList', marked)
        /\ \A basicBlock \in BasicBlocks :
              \A out \in writeBasicBlock(regions', searchCache',
                             total_translation_size', total_translated_size',
                             basicBlock) :
                  out.fault = "none"
                  => CommitErasesOnlyMarked(out.regions, flushList', marked)

\* C23: every index in flushList still denotes, when flushCommit erases
\* it, the region that clearCache(range) marked: whatever writeBasicBlock
\* and clearCache() calls come between the marking and the commit,
\* flushCommit erases only regions that were marked and never calls
\* eraseRegion with an index >= regions.size().
FlushListDenotesMarked ==
    [][/\ FlushCommit => fault' # "erase"
       /\ \A range \in Ranges :
             (flushList = <<>> /\ flushList' # <<>> /\ ClearCacheRange(range))
             => MarkedStaysMarked]_vars

\* C24: whenever a public operation has returned, every region owns at
\* least one buffer and has at least one sequenceCache entry: a region that
\* findRegion created with no buffers is written to before writeBasicBlock
\* returns, so updateRegionStat reads blocks[0] within bounds.
EveryRegionIsWritten ==
    fault = "none" =>
        \A r \in RegionIdx(regions) :
            /\ Len(Reg(regions, r).blocks) >= 1
            /\ DOMAIN Reg(regions, r).sequenceCache # {}

\* C24 witness: findRegion has inserted a region next to an older one, at
\* the index the search cache holds, and both are written.
EveryRegionIsWrittenWitness ==
    /\ fault = "none"
    /\ Len(regions) >= 2
    /\ searchCache.regionIdx < Len(regions)
    /\ Reg(regions, searchCache.regionIdx).covered.start = searchCache.address
    /\ Len(Reg(regions, searchCache.regionIdx).bbRegistry) = 1
    /\ \A r \in RegionIdx(regions) : Len(Reg(regions, r).blocks) >= 1

\* The guest address of the first instruction of the sequence that the
\* instCache entry at address a of the region refers to.
FirstInstructionOf(region, a) ==
    LET instLoc == region.instCache[a]
        block == region.blocks[instLoc.blockIdx + 1]
    IN  getInstAddress(block,
            getSeqStart(block, getSeqID(block, instLoc.instID)))

\* The buffer and the instruction an instCache entry names exist.
instLocInRange(region, a) ==
    /\ region.instCache[a].blockIdx < Len(region.blocks)
    /\ region.instCache[a].instID
         < Len(region.blocks[region.instCache[a].blockIdx + 1].insts)

\* What C25 states of the regions regs.
KeysAsStated(regs) ==
    \A r \in RegionIdx(regs) :
        LET region == Reg(regs, r)
        IN  /\ \A a \in DOMAIN region.instCache :
                  /\ instLocInRange(region, a)
                  /\ FirstInstructionOf(region, a)
                       \in DOMAIN region.sequenceCache
                  /\ ContainsAddr(region.covered, a)
            /\ \A a \in DOMAIN region.sequenceCache :
                  /\ region.sequenceCache[a].execBlock # NULL
                  /\ ContainsAddr(region.covered, a)

\* C25: in every reachable state and for every region, the guest address
\* of the first instruction of every sequence referenced from the region's
\* instCache is a key of its sequenceCache; so the lookup
\* sequenceCache[existingBBAddress] of a lazy split in getSeqLoc finds an
\* entry and inserts no default SeqLoc with a nil buffer, and every key of
\* sequenceCache and instCache lies inside the region's covered range.
SequenceStartsAreKeys ==
    fault = "none" =>
        /\ KeysAsStated(regions)
        /\ \A address \in Address :
              KeysAsStated(getSeqLoc(regions, searchCache, address).regions)

\* C25 witness: a region in which a lazy split has made an entry and in
\* which another instruction can still be split off.
SequenceStartsAreKeysWitness ==
    /\ fault = "none"
    /\ \E r \in RegionIdx(regions) :
          /\ \E a \in DOMAIN Reg(regions, r).sequenceCache :
                IsSplitEntry(Reg(regions, r), a)
          /\ \E a \in DOMAIN Reg(regions, r).instCache :
                a \notin DOMAIN Reg(regions, r).sequenceCache

====
